---- MODULE Spec2Model ----
(***************************************************************************)
(* Notes: a console note-taking program (src/main.py).                     *)
(*                                                                         *)
(* NotesManager keeps one SQLite table                                     *)
(*     notes(id INTEGER PRIMARY KEY AUTOINCREMENT, title TEXT, content TEXT)*)
(* NotesApp forwards every call to it, and main() is a menu loop that      *)
(* reads one line, dispatches on it and prints the outcome.                *)
(*                                                                         *)
(* Texts are sequences of one-character strings, so that LIKE matching and *)
(* the comparison of an id column with a text parameter are computed       *)
(* character by character, as SQLite computes them.                        *)
(***************************************************************************)
EXTENDS Integers, Sequences, FiniteSets, TLC

\* Number of add_note calls explored in one run of the program.
MaxAdds == 3

---------------------------------------------------------------------------
(* Inputs typed at the prompts *)

K1 == <<"1">>
K2 == <<"2">>
K3 == <<"3">>
K4 == <<"4">>
K5 == <<"5">>
K6 == <<"6">>

MenuKeys == {K1, K2, K3, K4, K5, K6}

\* Lines typed at "Выберите действие: ".
Choices ==
    MenuKeys \cup { <<>>, <<" ", "1">>, <<"1", "1">>, <<"7">> }

\* Lines typed at "Введите заголовок: ".
Titles == { <<>>, <<"a", "B">> }

\* Lines typed at "Введите содержание: ".
Contents == { <<>>, <<"_", "c">> }

\* Lines typed at the two id prompts.
IdTexts ==
    { <<"1">>, <<"2">>, <<"3">>, <<"9">>, <<" ", "1">>, <<"2", ".", "0">>,
      <<>>, <<"a">>, <<"1", "a">> }

\* Lines typed at the search prompt.
Keywords ==
    { <<>>, <<"a">>, <<"b">>, <<"c">>, <<"_">>, <<"%">>, <<"a", "b">> }

---------------------------------------------------------------------------
(* SQLite: text and numbers *)

Digits == {"0", "1", "2", "3", "4", "5", "6", "7", "8", "9"}

DigitVal ==
    "0" :> 0 @@ "1" :> 1 @@ "2" :> 2 @@ "3" :> 3 @@ "4" :> 4 @@
    "5" :> 5 @@ "6" :> 6 @@ "7" :> 7 @@ "8" :> 8 @@ "9" :> 9

IsSpace(c) == c \in {" ", "\t", "\n", "\r", "\f"}

RECURSIVE TrimLeft(_)
TrimLeft(s) ==
    IF s # <<>> /\ IsSpace(Head(s)) THEN TrimLeft(Tail(s)) ELSE s

RECURSIVE TrimRight(_)
TrimRight(s) ==
    IF s # <<>> /\ IsSpace(s[Len(s)])
    THEN TrimRight(SubSeq(s, 1, Len(s) - 1))
    ELSE s

\* Length of the longest prefix of s made of digits.
RECURSIVE DigitPrefixLen(_)
DigitPrefixLen(s) ==
    IF s # <<>> /\ Head(s) \in Digits THEN 1 + DigitPrefixLen(Tail(s)) ELSE 0

RECURSIVE DigitsValue(_)
DigitsValue(s) ==
    IF s = <<>> THEN 0
    ELSE 10 * DigitsValue(SubSeq(s, 1, Len(s) - 1)) + DigitVal[s[Len(s)]]

\* NumericValue as a cast would read the text: the digits it starts with
\* are its value, whatever follows them.
NumericValueCast(text) ==
    LET t == TrimLeft(text)
    IN  { DigitsValue(SubSeq(t, 1, DigitPrefixLen(t))) }

\* A text parameter compared with the INTEGER column id gets NUMERIC
\* affinity: surrounding blanks are skipped, a sign, digits and a fraction
\* are read, and the text becomes a number only if nothing is left over.
\* The result is the set of integers the text is equal to: one integer for
\* a well-formed number without a fractional part, none otherwise.  (The
\* texts drawn here carry no exponent.)
NumericValue(text) ==
    LET t     == TrimRight(TrimLeft(text))
        neg   == t # <<>> /\ Head(t) = "-"
        body  == IF t # <<>> /\ Head(t) \in {"+", "-"} THEN Tail(t) ELSE t
        n     == DigitPrefixLen(body)
        int   == SubSeq(body, 1, n)
        rest  == SubSeq(body, n + 1, Len(body))
        dot   == rest # <<>> /\ Head(rest) = "."
        after == IF dot THEN Tail(rest) ELSE rest
        m     == IF dot THEN DigitPrefixLen(after) ELSE 0
        frac  == SubSeq(after, 1, m)
        left  == SubSeq(after, m + 1, Len(after))
    IN  IF left = <<>> /\ n + m >= 1 /\ (\A i \in 1..m : frac[i] = "0")
        THEN { IF neg THEN 0 - DigitsValue(int) ELSE DigitsValue(int) }
        ELSE {}

\* LIKE folds the case of ASCII letters.
Fold(c) ==
    CASE c = "A" -> "a"
      [] c = "B" -> "b"
      [] c = "C" -> "c"
      [] c = "X" -> "x"
      [] OTHER   -> c

\* pattern LIKE text: % matches any run of characters, _ any one character,
\* every other character matches itself up to case.
RECURSIVE Like(_, _)
Like(pattern, text) ==
    IF pattern = <<>> THEN text = <<>>
    ELSE IF Head(pattern) = "%"
         THEN \/ Like(Tail(pattern), text)
              \/ text # <<>> /\ Like(pattern, Tail(text))
         ELSE /\ text # <<>>
              /\ \/ Head(pattern) = "_"
                 \/ Fold(Head(pattern)) = Fold(Head(text))
              /\ Like(Tail(pattern), Tail(text))

---------------------------------------------------------------------------
(* The table *)

\* db.notes is the table: its rows in the order a full scan visits them,
\* which is the order of their rowids; db.seq is the largest rowid the
\* table ever held (its sqlite_sequence entry).
EmptyDb == [notes |-> <<>>, seq |-> 0]

Max(a, b) == IF a >= b THEN a ELSE b

\* The largest rowid now in the table: that of its last row.
MaxRowid(notes) == IF notes = <<>> THEN 0 ELSE notes[Len(notes)].id

Ids(notes) == {notes[i].id : i \in 1..Len(notes)}

\* The table with one more row, put where its rowid belongs.
Insert(notes, row) ==
    LET Before(r) == r.id < row.id
        After(r)  == r.id > row.id
    IN  SelectSeq(notes, Before) \o <<row>> \o SelectSeq(notes, After)

None == [kind |-> "none", rows |-> <<>>]

---------------------------------------------------------------------------
(* NotesManager *)

\* NewRowid of a table declared without AUTOINCREMENT: one more than the
\* largest rowid now in the table.
NewRowidReuse(db) == MaxRowid(db.notes) + 1

\* AUTOINCREMENT: the new rowid is one more than the largest rowid the
\* table has ever held, whether or not that row is still there.
NewRowid(db) == Max(db.seq, MaxRowid(db.notes)) + 1

\* add_note with the two columns of the INSERT exchanged.
add_note_swapped(db, title, content) ==
    LET id == NewRowid(db)
    IN  [db  |-> [notes |-> Insert(db.notes, [id |-> id, title |-> content,
                                              content |-> title]),
                  seq   |-> Max(db.seq, id)],
         ret |-> None]

\* INSERT INTO notes (title, content) VALUES (?, ?); commit.
add_note(db, title, content) ==
    LET id == NewRowid(db)
    IN  [db  |-> [notes |-> Insert(db.notes, [id |-> id, title |-> title,
                                              content |-> content]),
                  seq   |-> Max(db.seq, id)],
         ret |-> None]

\* get_all_notes with ORDER BY id DESC.
get_all_notes_desc(db) ==
    LET n == Len(db.notes)
    IN  [db  |-> db,
         ret |-> [kind |-> "all",
                  rows |-> [i \in 1..n |->
                              <<db.notes[n + 1 - i].id, db.notes[n + 1 - i].title>>]]]

\* SELECT id, title FROM notes; fetchall.
get_all_notes(db) ==
    [db  |-> db,
     ret |-> [kind |-> "all",
              rows |-> [i \in 1..Len(db.notes) |->
                          <<db.notes[i].id, db.notes[i].title>>]]]

\* get_note_details that removes the row it returns.
get_note_details_pop(db, note_id) ==
    LET equal    == NumericValue(note_id)
        Match(r) == r.id \in equal
        Keep(r)  == r.id \notin equal
        rows     == SelectSeq(db.notes, Match)
    IN  [db  |-> [notes |-> SelectSeq(db.notes, Keep), seq |-> db.seq],
         ret |-> [kind |-> "one",
                  rows |-> IF rows = <<>> THEN <<>>
                           ELSE << <<rows[1].title, rows[1].content>> >>]]

\* SELECT title, content FROM notes WHERE id = ?; fetchone.
get_note_details(db, note_id) ==
    LET equal    == NumericValue(note_id)
        Match(r) == r.id \in equal
        rows     == SelectSeq(db.notes, Match)
    IN  [db  |-> db,
         ret |-> [kind |-> "one",
                  rows |-> IF rows = <<>> THEN <<>>
                           ELSE << <<rows[1].title, rows[1].content>> >>]]

\* delete_note whose DELETE has no WHERE clause.
delete_note_all(db, note_id) ==
    [db |-> [notes |-> <<>>, seq |-> db.seq], ret |-> None]

\* delete_note whose DELETE is never committed and is lost.
delete_note_lost(db, note_id) == [db |-> db, ret |-> None]

\* DELETE FROM notes WHERE id = ?; commit.
delete_note(db, note_id) ==
    LET equal   == NumericValue(note_id)
        Keep(r) == r.id \notin equal
    IN  [db  |-> [notes |-> SelectSeq(db.notes, Keep), seq |-> db.seq],
         ret |-> None]

\* SELECT id, title FROM notes WHERE content LIKE ? OR title LIKE ?, both
\* parameters being %keyword%; fetchall.
search_notes(db, keyword) ==
    LET pattern  == <<"%">> \o keyword \o <<"%">>
        Match(r) == Like(pattern, r.content) \/ Like(pattern, r.title)
        rows     == SelectSeq(db.notes, Match)
    IN  [db  |-> db,
         ret |-> [kind |-> "all",
                  rows |-> [i \in 1..Len(rows) |-> <<rows[i].id, rows[i].title>>]]]

---------------------------------------------------------------------------
(* main *)

VARIABLES
    db,        \* the notes table and its sqlite_sequence entry
    conn,      \* "open" or "closed"
    closes,    \* number of calls of close() so far
    pc,        \* "menu": at the prompt; "done": left the loop; "crashed"
    last,      \* the line read at the menu and what was typed after it
    ret,       \* what the storage call of the last iteration returned
    out,       \* the lines the last iteration printed
    assigned   \* the rowids given to the notes added so far, in order

vars == <<db, conn, closes, pc, last, ret, out, assigned>>

Line(kind, id, text) == [kind |-> kind, id |-> id, text |-> text]

Sep == Line("sep", 0, <<>>)

Read(choice, call, title, content, id, keyword) ==
    [choice |-> choice, call |-> call, title |-> title, content |-> content,
     id |-> id, keyword |-> keyword]

\* Selected on the line with its surrounding blanks removed.
SelectedStripped(choice, key) == TrimRight(TrimLeft(choice)) = key

\* The if/elif chain of the loop body.
Selected(choice, key) == choice = key

Dispatch(choice) ==
    IF Selected(choice, K1) THEN "add"
    ELSE IF Selected(choice, K2) THEN "list"
    ELSE IF Selected(choice, K3) THEN "details"
    ELSE IF Selected(choice, K4) THEN "delete"
    ELSE IF Selected(choice, K6) THEN "exit"
    ELSE IF Selected(choice, K5) THEN "search"
    ELSE "invalid"

\* A statement run on a closed connection raises sqlite3.ProgrammingError,
\* which nothing catches.
Raise(choice, call) ==
    /\ pc' = "crashed"
    /\ last' = Read(choice, call, <<>>, <<>>, <<>>, <<>>)
    /\ ret' = None
    /\ out' = <<>>
    /\ UNCHANGED <<db, conn, closes, assigned>>

Init ==
    /\ db = EmptyDb
    /\ conn = "open"
    /\ closes = 0
    /\ pc = "menu"
    /\ last = Read(<<"start">>, "none", <<>>, <<>>, <<>>, <<>>)
    /\ ret = None
    /\ out = <<>>
    /\ assigned = <<>>

Add ==
    /\ pc = "menu"
    /\ Len(assigned) < MaxAdds
    /\ \E choice \in Choices :
         /\ Dispatch(choice) = "add"
         /\ \E title \in Titles, content \in Contents :
              IF conn = "open"
              THEN LET r == add_note(db, title, content)
                   IN  /\ db' = r.db
                       /\ ret' = r.ret
                       /\ assigned' = Append(assigned, NewRowid(db))
                       /\ out' = <<Line("added", 0, <<>>)>>
                       /\ last' = Read(choice, "add_note", title, content, <<>>, <<>>)
                       /\ UNCHANGED <<conn, closes, pc>>
              ELSE Raise(choice, "add_note")

RowLines(rows) ==
    [i \in 1..Len(rows) |-> Line("row", rows[i][1], rows[i][2])]

ListAll ==
    /\ pc = "menu"
    /\ \E choice \in Choices :
         /\ Dispatch(choice) = "list"
         /\ IF conn = "open"
            THEN LET r == get_all_notes(db)
                 IN  /\ db' = r.db
                     /\ ret' = r.ret
                     /\ out' = <<Sep>>
                               \o (IF r.ret.rows = <<>>
                                   THEN <<Line("empty", 0, <<>>)>>
                                   ELSE <<Line("header", 0, <<>>)>>)
                               \o RowLines(r.ret.rows)
                               \o <<Sep>>
                     /\ last' = Read(choice, "get_all_notes", <<>>, <<>>, <<>>, <<>>)
                     /\ UNCHANGED <<conn, closes, pc, assigned>>
            ELSE Raise(choice, "get_all_notes")

Details ==
    /\ pc = "menu"
    /\ \E choice \in Choices :
         /\ Dispatch(choice) = "details"
         /\ \E note_id \in IdTexts :
              IF conn = "open"
              THEN LET r == get_note_details(db, note_id)
                   IN  /\ db' = r.db
                       /\ ret' = r.ret
                       /\ out' = <<Sep>>
                                 \o (IF r.ret.rows # <<>>
                                     THEN <<Line("title", 0, r.ret.rows[1][1]),
                                            Line("content", 0, r.ret.rows[1][2])>>
                                     ELSE <<Line("notfound", 0, <<>>)>>)
                                 \o <<Sep>>
                       /\ last' = Read(choice, "get_note_details", <<>>, <<>>, note_id, <<>>)
                       /\ UNCHANGED <<conn, closes, pc, assigned>>
              ELSE Raise(choice, "get_note_details")

Delete ==
    /\ pc = "menu"
    /\ \E choice \in Choices :
         /\ Dispatch(choice) = "delete"
         /\ \E note_id \in IdTexts :
              IF conn = "open"
              THEN LET r == delete_note(db, note_id)
                   IN  /\ db' = r.db
                       /\ ret' = r.ret
                       /\ out' = <<Line("deleted", 0, <<>>)>>
                       /\ last' = Read(choice, "delete_note", <<>>, <<>>, note_id, <<>>)
                       /\ UNCHANGED <<conn, closes, pc, assigned>>
              ELSE Raise(choice, "delete_note")

\* Exit without the break: the loop goes on with the connection closed.
ExitNoBreak ==
    /\ pc = "menu"
    /\ \E choice \in Choices :
         /\ Dispatch(choice) = "exit"
         /\ conn' = "closed"
         /\ closes' = closes + 1
         /\ ret' = None
         /\ out' = <<>>
         /\ last' = Read(choice, "close", <<>>, <<>>, <<>>, <<>>)
         /\ UNCHANGED <<db, assigned, pc>>

\* app.close(); break.  Closing a closed connection is allowed.
Exit ==
    /\ pc = "menu"
    /\ \E choice \in Choices :
         /\ Dispatch(choice) = "exit"
         /\ conn' = "closed"
         /\ closes' = closes + 1
         /\ pc' = "done"
         /\ ret' = None
         /\ out' = <<>>
         /\ last' = Read(choice, "close", <<>>, <<>>, <<>>, <<>>)
         /\ UNCHANGED <<db, assigned>>

Search ==
    /\ pc = "menu"
    /\ \E choice \in Choices :
         /\ Dispatch(choice) = "search"
         /\ \E keyword \in Keywords :
              IF conn = "open"
              THEN LET r == search_notes(db, keyword)
                   IN  /\ db' = r.db
                       /\ ret' = r.ret
                       /\ out' = <<Sep>>
                                 \o (IF r.ret.rows # <<>>
                                     THEN <<Line("matches", 0, keyword)>>
                                          \o RowLines(r.ret.rows)
                                     ELSE <<Line("nomatch", 0, <<>>)>>)
                                 \o <<Sep>>
                       /\ last' = Read(choice, "search_notes", <<>>, <<>>, <<>>, keyword)
                       /\ UNCHANGED <<conn, closes, pc, assigned>>
              ELSE Raise(choice, "search_notes")

Invalid ==
    /\ pc = "menu"
    /\ \E choice \in Choices :
         /\ Dispatch(choice) = "invalid"
         /\ out' = <<Line("invalid", 0, <<>>)>>
         /\ ret' = None
         /\ last' = Read(choice, "none", <<>>, <<>>, <<>>, <<>>)
         /\ UNCHANGED <<db, conn, closes, pc, assigned>>

Next ==
    \/ Add
    \/ ListAll
    \/ Details
    \/ Delete
    \/ Exit
    \/ Search
    \/ Invalid

Spec == Init /\ [][Next]_vars

---------------------------------------------------------------------------
(* Properties *)

DigitChar == <<"0", "1", "2", "3", "4", "5", "6", "7", "8", "9">>

\* The decimal text of n, as the listing prints an id.
RECURSIVE Decimal(_)
Decimal(n) ==
    IF n < 10 THEN <<DigitChar[n + 1]>>
    ELSE Decimal(n \div 10) \o <<DigitChar[(n % 10) + 1]>>

\* keyword occurs in text as a run of consecutive characters.
Contains(text, keyword) ==
    \E i \in 0..(Len(text) - Len(keyword)) :
        SubSeq(text, i + 1, i + Len(keyword)) = keyword

FoldAll(text) == [i \in 1..Len(text) |-> Fold(text[i])]

ContainsFolded(text, keyword) == Contains(FoldAll(text), FoldAll(keyword))

\* The (id, title) pairs of the notes one of whose fields contains keyword.
Holding(notes, keyword, Has(_, _)) ==
    LET Match(r) == Has(r.title, keyword) \/ Has(r.content, keyword)
        rows     == SelectSeq(notes, Match)
    IN  [i \in 1..Len(rows) |-> <<rows[i].id, rows[i].title>>]

RowIds(rows) == {rows[i][1] : i \in 1..Len(rows)}

\* C1: search(keyword) returns exactly the (id, title) pairs of the notes
\* whose title or content contains keyword as a substring, comparing
\* letters either exactly or up to case, and search("") returns every note.
C1_SearchIsSubstringMatch ==
    last.call = "search_notes" =>
        /\ \/ ret.rows = Holding(db.notes, last.keyword, Contains)
           \/ ret.rows = Holding(db.notes, last.keyword, ContainsFolded)
        /\ last.keyword = <<>> => Len(ret.rows) = Len(db.notes)

\* C2: the ids given out by successive adds are strictly increasing, hence
\* pairwise distinct and never given out twice, whatever was deleted in
\* between; the notes in the table carry distinct ids among those given out.
C2_IdsStrictlyIncreasing ==
    /\ \A i, j \in 1..Len(assigned) : i < j => assigned[i] < assigned[j]
    /\ \A i, j \in 1..Len(db.notes) : i # j => db.notes[i].id # db.notes[j].id
    /\ Ids(db.notes) \subseteq {assigned[i] : i \in 1..Len(assigned)}

\* An add has followed the deletion of the note that held the highest id.
C2_Witness ==
    /\ Len(assigned) >= 2
    /\ assigned[Len(assigned)] \in Ids(db.notes)
    /\ assigned[Len(assigned) - 1] \notin Ids(db.notes)
    /\ last.call = "add_note"

\* C3: right after add(title, content), get_details on the id the note was
\* given yields exactly (title, content); and get_details on the id of any
\* note yields the same after every step, except that it yields nothing
\* after a delete of that very id.
C3_RoundTrip ==
    [][ /\ last'.call = "add_note" =>
             LET new == Ids(db'.notes) \ Ids(db.notes)
             IN  /\ Cardinality(new) = 1
                 /\ \A id \in new :
                      get_note_details(db', Decimal(id)).ret.rows
                          = << <<last'.title, last'.content>> >>
        /\ \A id \in Ids(db.notes) :
             LET before == get_note_details(db, Decimal(id)).ret.rows
                 after  == get_note_details(db', Decimal(id)).ret.rows
             IN  /\ Len(before) = 1
                 /\ \/ after = before
                    \/ /\ after = <<>>
                       /\ last'.call = "delete_note"
                       /\ id \in NumericValue(last'.id)
      ]_vars

\* A note with both fields filled in is still there after a later add and
\* the deletion of the later note.
C3_Witness ==
    /\ last.call = "delete_note"
    /\ Len(assigned) >= 2
    /\ Ids(db.notes) = {1}
    /\ get_note_details(db, <<"1">>).ret.rows = << << <<"a", "B">>, <<"_", "c">> >> >>

\* C4: after delete(id), a second delete(id) raises nothing and leaves the
\* table as it is, get_details(id) yields nothing, and neither list_all nor
\* any search returns a row with that id.
C4_DeleteIdempotent ==
    last.call = "delete_note" =>
        LET named == NumericValue(last.id)
                         \cup {k \in 0..9 : Decimal(k) = last.id}
        IN  /\ pc = "menu"
            /\ delete_note(db, last.id).db = db
            /\ get_note_details(db, last.id).ret.rows = <<>>
            /\ RowIds(get_all_notes(db).ret.rows) \cap named = {}
            /\ \A keyword \in Keywords :
                 RowIds(search_notes(db, keyword).ret.rows) \cap named = {}

\* A note that was there has been deleted, others remain.
C4_Witness ==
    /\ last.call = "delete_note"
    /\ last.id = <<"1">>
    /\ assigned = <<1, 2>>
    /\ Ids(db.notes) = {2}

\* C5: delete(id) removes at most one note, the one with that id, and
\* leaves the id, title and content of every other note as they were; when
\* no note has that id nothing changes at all.
C5_DeleteFrame ==
    [][ last'.call = "delete_note" =>
          LET gone    == Ids(db.notes) \ Ids(db'.notes)
              Stay(r) == r.id \notin gone
          IN  /\ Cardinality(gone) <= 1
              /\ gone \subseteq NumericValue(last'.id)
              /\ \A k \in Ids(db.notes) : last'.id = Decimal(k) => gone = {k}
              /\ db'.notes = SelectSeq(db.notes, Stay)
              /\ db'.seq = db.seq
              /\ (\A k \in Ids(db.notes) : k \notin NumericValue(last'.id))
                    => db' = db
              /\ pc' = "menu"
              /\ out' = <<Line("deleted", 0, <<>>)>>
      ]_vars

\* One of three notes has been deleted.
C5_Witness ==
    /\ last.call = "delete_note"
    /\ last.id = <<"2">>
    /\ Ids(db.notes) = {1, 3}

\* C6: list_all returns the (id, title) of every note in the table and of
\* no other, each once, by ascending id, without the content; on an empty
\* table it returns nothing and choice 2 prints the list-is-empty message
\* and neither the header nor a row.
C6_ListAll ==
    last.call = "get_all_notes" =>
        /\ ret.kind = "all"
        /\ Len(ret.rows) = Len(db.notes)
        /\ \A i \in 1..Len(ret.rows) :
             /\ Len(ret.rows[i]) = 2
             /\ \E k \in 1..Len(db.notes) :
                  ret.rows[i] = <<db.notes[k].id, db.notes[k].title>>
        /\ \A i, j \in 1..Len(ret.rows) : i < j => ret.rows[i][1] < ret.rows[j][1]
        /\ RowIds(ret.rows) = Ids(db.notes)
        /\ IF db.notes = <<>>
           THEN /\ ret.rows = <<>>
                /\ out = <<Sep, Line("empty", 0, <<>>), Sep>>
           ELSE out = <<Sep, Line("header", 0, <<>>)>>
                      \o [i \in 1..Len(ret.rows) |->
                            Line("row", ret.rows[i][1], ret.rows[i][2])]
                      \o <<Sep>>

\* Two notes are listed after an earlier one was deleted.
C6_Witness ==
    /\ last.call = "get_all_notes"
    /\ Len(ret.rows) = 2
    /\ Len(assigned) = 3

\* A text with no digit in it, or with a character no number has.
NonNumeric(text) ==
    \/ \A i \in 1..Len(text) : text[i] \notin Digits
    \/ \E i \in 1..Len(text) : text[i] \notin Digits \cup {" ", "+", "-", "."}

\* C7: an id text that is no number, or that is the number of no note in
\* the table, is a plain not-found: get_details yields nothing and the shell
\* prints the not-found message, delete leaves the table as it was, and the
\* loop is back at the menu.
C7_BadIdsNotFound ==
    [][ ( /\ last'.call \in {"get_note_details", "delete_note"}
          /\ \/ NonNumeric(last'.id)
             \/ \E k \in 0..9 : last'.id = Decimal(k) /\ k \notin Ids(db.notes) )
        => /\ pc' = "menu"
           /\ conn' = "open"
           /\ db' = db
           /\ last'.call = "get_note_details" =>
                /\ ret'.rows = <<>>
                /\ out' = <<Sep, Line("notfound", 0, <<>>), Sep>>
           /\ last'.call = "delete_note" => out' = <<Line("deleted", 0, <<>>)>>
      ]_vars

\* "1a" was asked for while note 1 was in the table.
C7_Witness ==
    /\ last.call = "get_note_details"
    /\ last.id = <<"1", "a">>
    /\ 1 \in Ids(db.notes)
    /\ ret.rows = <<>>

\* C8: the loop has ended exactly when the line read was "6"; then the
\* connection is closed and close() was called once; otherwise the program
\* is at the menu with the connection open and close() never called; no
\* statement is ever run on the closed connection.
C8_LoopEndsOnlyOnSix ==
    /\ pc \in {"menu", "done"}
    /\ (pc = "done") <=> (last.choice = K6)
    /\ pc = "menu" => conn = "open" /\ closes = 0
    /\ pc = "done" => conn = "closed" /\ closes = 1 /\ last.call = "close"

\* The program has ended after some work.
C8_Witness ==
    /\ pc = "done"
    /\ conn = "closed"
    /\ Len(assigned) >= 1

\* C9: a line other than "1" ... "6" prints the invalid-choice message,
\* calls no storage operation, leaves the table and the connection as they
\* were, and the loop is back at the menu.
C9_InvalidChoice ==
    [][ last'.choice \notin MenuKeys =>
          /\ db' = db
          /\ conn' = conn
          /\ closes' = closes
          /\ assigned' = assigned
          /\ pc' = "menu"
          /\ last'.call = "none"
          /\ ret' = None
          /\ out' = <<Line("invalid", 0, <<>>)>>
      ]_vars

\* The padded line " 1" was read while a note was in the table.
C9_Witness ==
    /\ last.choice = <<" ", "1">>
    /\ out = <<Line("invalid", 0, <<>>)>>
    /\ db.notes # <<>>

\* C10: list_all, get_details and search, with whatever argument, leave the
\* table and the next id as they were; a step that changes either is an add
\* (choice 1) or a delete (choice 4).
C10_ReadsKeepStore ==
    [][ /\ last'.call \in {"get_all_notes", "get_note_details", "search_notes"}
             => db' = db /\ assigned' = assigned
        /\ db' # db =>
             \/ last'.call = "add_note" /\ last'.choice = K1
             \/ last'.call = "delete_note" /\ last'.choice = K4
      ]_vars

\* A note was found by get_details and is still in the table.
C10_Witness ==
    /\ last.call = "get_note_details"
    /\ ret.rows # <<>>
    /\ Len(db.notes) = Len(assigned)
    /\ Len(assigned) >= 2

====
